---- MODULE Spec2Model ----
(***************************************************************************)
(* Model of the concurrent TCP port scanner of src/rust/src/main.rs:       *)
(* main (validation, resolution, timeout derivation, the bounded sweep,    *)
(* the join loop, aggregation, the fallback probe, reporting) and          *)
(* estimate_timeout.  Durations are in milliseconds.                       *)
(***************************************************************************)
EXTENDS Integers, Sequences, FiniteSets, TLC

\* ---------------------------------------------------------------- bounds
\* number of distinct port values the command line may name (21, 22, ...)
MaxRange == 2
\* largest --retries value tried
MaxRetries == 1
\* largest --workers value tried (0 .. MaxWorkers)
MaxWorkers == 2

\* ---------------------------------------------------- program constants
FloorMs == 150
MedianFactor == 3
FastTimeoutCap == 80
FastWorkersFloor == 2000
BannerBuf == 256
ExitValidation == 2
ExitResolve == 1
ReplacementChar == 65533
\* usize::MAX.  It is 2^64 - 1, beyond TLC's integers: the largest integer
\* TLC has stands for it, and the only arithmetic done on it is + 1.
UsizeMax == 2147483647
\* u16 values are taken modulo 2^16
U16Modulus == 65536
\* the exit code of a process whose main thread panics
ExitPanic == 101

\* ------------------------------------------------------------ input sets
Ports == 21..(20 + MaxRange)
WorkersIn == 0..MaxWorkers
RetriesIn == (0..MaxRetries) \cup {UsizeMax}
TimeoutsIn == {50, 300}
\* elapsed times a latency probe may measure: in a whole run, and when
\* estimate_timeout is examined on its own
Latencies == {10, 1000}
SampleSet == {10, 12, 14, 16, 60, 1000}
\* bytes a peer may send first: nothing, or an ASCII letter and a byte that is not UTF-8
ByteSeqs == {<<>>, <<72, 255>>}

VARIABLES
    args,         \* the parsed command line (Args)
    pc,           \* position of main
    exit_code,    \* -1 while running, else the process exit code
    ip,           \* the resolved address: "" before resolution, then "v4"
                  \* or "v6", the first address of the host, by its family
    durations,    \* estimate_timeout: the probe durations collected so far
    derived,      \* estimate_timeout: the value it returns (0 before)
    timeout_dur,  \* main: the per-attempt timeout (0 before it is derived)
    workers,      \* main: effective worker limit
    retries,      \* main: effective retries
    sem,          \* permits available in the semaphore (-1 before creation)
    port,         \* loop variable of the spawn loop
    units,        \* the spawned tasks, by port
    handles,      \* the join handles, in spawn order
    results,      \* the collected ResultRec values
    open,         \* the open subset / the final result
    fb,           \* number of fallback ports probed so far
    net,          \* the network calls made so far: [kind, target, port]
    output,       \* what the run printed
    overflow_checks, \* the build panics on integer overflow (else it wraps)
    total_ports   \* the value of args.end - args.start + 1 (-1 before it is
                  \* computed)

vars == <<args, pc, exit_code, ip, durations, derived, timeout_dur, workers,
          retries, sem, port, units, handles, results, open, fb, net, output,
          overflow_checks, total_ports>>

\* ---------------------------------------------------------------- helpers
Min(a, b) == IF a < b THEN a ELSE b
Max(a, b) == IF a > b THEN a ELSE b

None == <<>>
Some(x) == <<x>>

\* ResultRec { port, status, banner }
ResultRec(p, s, b) == [port |-> p, status |-> s, banner |-> b]

\* durations.sort(), line 24: insertion into an ascending sequence
RECURSIVE Insert(_, _)
Insert(x, s) ==
    IF s = <<>> THEN <<x>>
    ELSE IF x < Head(s) THEN <<x>> \o s
    ELSE <<Head(s)>> \o Insert(x, Tail(s))

RECURSIVE Sort(_)
Sort(s) ==
    IF s = <<>> THEN <<>>
    ELSE Insert(s[Len(s)], Sort(SubSeq(s, 1, Len(s) - 1)))

PortKey_descending(r) == 0 - r.port

\* the key of sort_by_key, line 156
PortKey(r) == r.port

\* results.sort_by_key(|r| r.port), line 156: a stable sort
RECURSIVE InsertByKey(_, _)
InsertByKey(x, s) ==
    IF s = <<>> THEN <<x>>
    ELSE IF PortKey(x) < PortKey(Head(s)) THEN <<x>> \o s
    ELSE <<Head(s)>> \o InsertByKey(x, Tail(s))

RECURSIVE SortByKey(_)
SortByKey(s) ==
    IF s = <<>> THEN <<>>
    ELSE InsertByKey(s[Len(s)], SortByKey(SubSeq(s, 1, Len(s) - 1)))

IsOpen_any(r) == TRUE

IsOpen(r) == r.status = "open"

\* into_iter().filter(|r| r.status == "open").collect(), line 157
RECURSIVE FilterOpen(_)
FilterOpen(s) ==
    IF s = <<>> THEN <<>>
    ELSE IF IsOpen(Head(s)) THEN <<Head(s)>> \o FilterOpen(Tail(s))
    ELSE FilterOpen(Tail(s))

\* String::from_utf8_lossy on bytes that are ASCII or never valid in UTF-8
from_utf8_lossy(bytes) ==
    [i \in DOMAIN bytes |-> IF bytes[i] < 128 THEN bytes[i] ELSE ReplacementChar]

\* the banner match of lines 132-135 and 166-169; rd is the outcome of
\* timeout(.., stream.read(&mut buf))
ReadOutcomes ==
    {[kind |-> "elapsed", data |-> <<>>], [kind |-> "err", data |-> <<>>]}
        \cup {[kind |-> "ok", data |-> b] : b \in ByteSeqs}

BannerOf_any_read(rd) ==
    IF rd.kind = "ok"
    THEN Some(from_utf8_lossy(SubSeq(rd.data, 1, Min(Len(rd.data), BannerBuf))))
    ELSE None

BannerOf(rd) ==
    IF rd.kind = "ok" /\ Len(rd.data) > 0
    THEN Some(from_utf8_lossy(SubSeq(rd.data, 1, Min(Len(rd.data), BannerBuf))))
    ELSE None

\* ---------------------------------------------------------------- initial
NoUnit == [st |-> "unspawned", attempts |-> 0, try_idx |-> 0, hist |-> <<>>,
           rec |-> None]

Init ==
    /\ args \in [start : Ports, end : Ports, workers : WorkersIn,
                 timeout : TimeoutsIn, json : BOOLEAN, retries : RetriesIn,
                 adaptive : BOOLEAN, fast_public : BOOLEAN]
    /\ pc = "validate"
    /\ exit_code = -1
    /\ ip = ""
    /\ durations = <<>>
    /\ derived = 0
    /\ timeout_dur = 0
    /\ workers = 0
    /\ retries = 0
    /\ sem = -1
    /\ port = 0
    /\ units = [p \in Ports |-> NoUnit]
    /\ handles = <<>>
    /\ results = <<>>
    /\ open = <<>>
    /\ fb = 0
    /\ net = {}
    /\ output = "none"
    /\ total_ports = -1
    \* the build profile shows only where an overflow occurs (line 127)
    /\ overflow_checks \in IF args.retries = UsizeMax THEN BOOLEAN ELSE {FALSE}

NetCall(kind, target, p) == [kind |-> kind, target |-> target, port |-> p]

\* ------------------------------------------------------- main, lines 81-99
RangeInvalid_off_by_one(a) == a.end + 1 < a.start

RangeInvalid(a) == a.end < a.start

Validate ==
    /\ pc = "validate"
    /\ IF RangeInvalid(args)
       THEN /\ pc' = "exited"
            /\ exit_code' = ExitValidation
            /\ output' = "end must be >= start"
       ELSE /\ pc' = "resolve"
            /\ UNCHANGED <<exit_code, output>>
    /\ UNCHANGED <<args, ip, durations, derived, timeout_dur, workers, retries,
                   sem, port, units, handles, results, open, fb, net, overflow_checks, total_ports>>

Resolve_degraded ==
    /\ pc = "resolve"
    /\ net' = net \cup {NetCall("resolve", "host", 0)}
    /\ \E r \in {"err", "empty", "v4", "v6"} :
        IF r \in {"v4", "v6"}
        THEN /\ ip' = r
             /\ pc' = "derive"
             /\ UNCHANGED <<exit_code, output>>
        ELSE IF r = "empty"
        THEN /\ ip' = "v4"
             /\ pc' = "derive"
             /\ output' = "failed to resolve host"
             /\ UNCHANGED exit_code
        ELSE /\ pc' = "exited"
             /\ exit_code' = ExitResolve
             /\ output' = "resolve error"
             /\ UNCHANGED ip
    /\ UNCHANGED <<args, durations, derived, timeout_dur, workers, retries,
                   sem, port, units, handles, results, open, fb, overflow_checks,
                   total_ports>>

\* to_socket_addrs: an error, no address, or a first address (IPv4 or IPv6)
Resolve ==
    /\ pc = "resolve"
    /\ net' = net \cup {NetCall("resolve", "host", 0)}
    /\ \E r \in {"err", "empty", "v4", "v6"} :
        IF r \in {"v4", "v6"}
        THEN /\ ip' = r
             /\ pc' = "derive"
             /\ UNCHANGED <<exit_code, output>>
        ELSE /\ pc' = "exited"
             /\ exit_code' = ExitResolve
             /\ output' = IF r = "err" THEN "resolve error" ELSE "failed to resolve host"
             /\ UNCHANGED ip
    /\ UNCHANGED <<args, durations, derived, timeout_dur, workers, retries,
                   sem, port, units, handles, results, open, fb, overflow_checks, total_ports>>

\* ------------------------------------------- estimate_timeout, lines 12-31
samples == <<22, 80, 443, 53, 25>>

UsesEstimate_adaptive_only(a) == a.adaptive

UsesEstimate(a) == a.adaptive /\ ~a.fast_public

\* line 20: "{ip}:{sp}" parses as a SocketAddr for an IPv4 address; for an
\* IPv6 address (no brackets) it does not, and 127.0.0.1:sp is taken instead
ProbeTarget(addr) == IF addr = "v4" THEN addr ELSE "127.0.0.1"

\* one iteration of the probe loop (lines 15-23): connect_timeout to ip:sp,
\* whatever its result, and push the elapsed time
ProbeIn(elapsed) ==
    /\ pc = "derive"
    /\ UsesEstimate(args)
    /\ Len(durations) < Len(samples)
    /\ \E d \in elapsed :
        durations' = Append(durations, d)
    /\ net' = net \cup {NetCall("probe", ProbeTarget(ip), samples[Len(durations) + 1])}
    /\ UNCHANGED <<args, pc, exit_code, ip, derived, timeout_dur, workers,
                   retries, sem, port, units, handles, results, open, fb, output, overflow_checks, total_ports>>

Probe == ProbeIn(Latencies)

MedianOf_second(sorted) == sorted[Len(sorted) \div 2]

\* durations[durations.len()/2] of the sorted vector (0-based index)
MedianOf(sorted) == sorted[(Len(sorted) \div 2) + 1]

Derive_cap_then_floor(median, max_timeout) ==
    LET d0 == median * MedianFactor
        d1 == IF d0 > max_timeout THEN max_timeout ELSE d0
    IN  IF d1 < FloorMs THEN FloorMs ELSE d1

\* lines 26-30
Derive(median, max_timeout) ==
    LET floor == FloorMs
        d0 == median * MedianFactor
        d1 == IF d0 < floor THEN floor ELSE d0
    IN  IF d1 > max_timeout THEN max_timeout ELSE d1

\* lines 24-30: sort, take the median, derive the value to return
EstimateCompute ==
    /\ pc = "derive"
    /\ UsesEstimate(args)
    /\ Len(durations) = Len(samples)
    /\ durations' = Sort(durations)
    /\ derived' = Derive(MedianOf(durations'), args.timeout)
    /\ pc' = "estimated"
    /\ UNCHANGED <<args, exit_code, ip, timeout_dur, workers, retries, sem,
                   port, units, handles, results, open, fb, net, output, overflow_checks, total_ports>>

\* ---------------------------------------------------- main, lines 102-114
FastTimeout(t) == IF t > FastTimeoutCap THEN FastTimeoutCap ELSE t
FastRetries(r) == IF r > 0 THEN 0 ELSE r
FastWorkers_kept(w) == w

FastWorkers(w) == IF w < FastWorkersFloor THEN FastWorkersFloor ELSE w

\* the estimate returns (or base_timeout is taken), the fast_public overrides
\* are applied, the semaphore is created
Configure ==
    /\ \/ pc = "estimated"
       \/ pc = "derive" /\ ~UsesEstimate(args)
    /\ LET base_timeout == args.timeout
           t0 == IF UsesEstimate(args) THEN derived ELSE base_timeout
       IN  /\ timeout_dur' = IF args.fast_public THEN FastTimeout(t0) ELSE t0
           /\ retries' = IF args.fast_public THEN FastRetries(args.retries) ELSE args.retries
           /\ workers' = IF args.fast_public THEN FastWorkers(args.workers) ELSE args.workers
    /\ sem' = workers'
    /\ durations' = <<>>
    /\ derived' = 0
    /\ port' = args.start
    /\ pc' = "spawn"
    /\ UNCHANGED <<args, exit_code, ip, units, handles, results, open, fb, net, output, overflow_checks, total_ports>>

\* ------------------------------------------- the spawn loop, lines 116-147
Spawn ==
    /\ pc = "spawn"
    /\ units' = [units EXCEPT ![port] = [NoUnit EXCEPT !.st = "waiting"]]
    /\ handles' = Append(handles, port)
    /\ IF port = args.end
       THEN pc' = "join" /\ UNCHANGED port
       ELSE pc' = "spawn" /\ port' = port + 1
    /\ UNCHANGED <<args, exit_code, ip, durations, derived, timeout_dur, workers,
                   retries, sem, results, open, fb, net, output, overflow_checks, total_ports>>

\* ------------------------------------------ one unit of work, lines 121-144
wrapping_inc_none(n) == n

\* usize + 1 in a build without overflow checks
wrapping_inc(n) == IF n = UsizeMax THEN 0 ELSE n + 1

InFlight(u) == u.st \in {"connecting", "reading"}

PermitAvailable_always(permits) == TRUE

\* acquire_owned completes only when the semaphore has a permit
PermitAvailable(permits) == permits > 0

\* lines 123-129: acquire_owned returns with a permit and the unit runs up to
\* its first connect: attempts = retries + 1 panics on overflow in a build
\* with overflow checks (the task ends without a value and its join handle
\* yields Err) and wraps to 0 otherwise (the loop body never runs, line 143);
\* either way the permit is dropped again
Acquire(p) ==
    /\ units[p].st = "waiting"
    /\ PermitAvailable(sem)
    /\ IF retries = UsizeMax /\ overflow_checks
       THEN /\ units' = [units EXCEPT ![p].st = "failed"]
            /\ UNCHANGED <<sem, net>>
       ELSE IF wrapping_inc(retries) = 0
       THEN /\ units' = [units EXCEPT ![p].st = "done",
                                     ![p].rec = Some(ResultRec(p, "closed", None))]
            /\ UNCHANGED <<sem, net>>
       ELSE /\ units' = [units EXCEPT ![p].st = "connecting",
                                     ![p].attempts = wrapping_inc(retries),
                                     ![p].try_idx = 0]
            /\ sem' = sem - 1
            /\ net' = net \cup {NetCall("connect", ip, p)}
    /\ UNCHANGED <<args, pc, exit_code, ip, durations, derived, timeout_dur,
                   workers, retries, port, handles, results, open, fb, output,
                   overflow_checks, total_ports>>

Attempt(resp) == [resp |-> resp, tmo |-> timeout_dur]

\* line 130: Ok(Ok(stream)); the banner read begins
ConnectOk(p) ==
    /\ units[p].st = "connecting"
    /\ units' = [units EXCEPT ![p].st = "reading",
                              ![p].hist = Append(@, Attempt("connected"))]
    /\ UNCHANGED <<args, pc, exit_code, ip, durations, derived, timeout_dur, workers,
                   retries, sem, port, handles, results, open, fb, net, output, overflow_checks, total_ports>>

ConnectRefused_retries(p) ==
    /\ units[p].st = "connecting"
    /\ IF units[p].try_idx + 1 < units[p].attempts
       THEN /\ units' = [units EXCEPT ![p].try_idx = @ + 1,
                                     ![p].hist = Append(@, Attempt("refused"))]
            /\ UNCHANGED sem
       ELSE /\ units' = [units EXCEPT ![p].st = "done",
                                     ![p].hist = Append(@, Attempt("refused")),
                                     ![p].rec = Some(ResultRec(p, "closed", None))]
            /\ sem' = sem + 1
    /\ UNCHANGED <<args, pc, exit_code, ip, durations, derived, timeout_dur, workers,
                   retries, port, handles, results, open, fb, net, output,
                   overflow_checks, total_ports>>

\* line 138: Ok(Err(_)) => break, then line 143; the permit is dropped
ConnectRefused(p) ==
    /\ units[p].st = "connecting"
    /\ units' = [units EXCEPT ![p].st = "done",
                              ![p].hist = Append(@, Attempt("refused")),
                              ![p].rec = Some(ResultRec(p, "closed", None))]
    /\ sem' = sem + 1
    /\ UNCHANGED <<args, pc, exit_code, ip, durations, derived, timeout_dur, workers,
                   retries, port, handles, results, open, fb, net, output, overflow_checks, total_ports>>

\* lines 139-140: Err(_): retry while try_idx + 1 < attempts, else closed
ConnectTimeout(p) ==
    /\ units[p].st = "connecting"
    /\ IF units[p].try_idx + 1 < units[p].attempts
       THEN /\ units' = [units EXCEPT ![p].try_idx = @ + 1,
                                     ![p].hist = Append(@, Attempt("elapsed"))]
            /\ UNCHANGED sem
       ELSE /\ units' = [units EXCEPT ![p].st = "done",
                                     ![p].hist = Append(@, Attempt("elapsed")),
                                     ![p].rec = Some(ResultRec(p, "closed", None))]
            /\ sem' = sem + 1
    /\ UNCHANGED <<args, pc, exit_code, ip, durations, derived, timeout_dur, workers,
                   retries, port, handles, results, open, fb, net, output, overflow_checks, total_ports>>

BannerRead_keeps_permit(p) ==
    /\ units[p].st = "reading"
    /\ \E rd \in ReadOutcomes :
        units' = [units EXCEPT ![p].st = "done",
                               ![p].rec = Some(ResultRec(p, "open", BannerOf(rd)))]
    /\ UNCHANGED <<args, pc, exit_code, ip, durations, derived, timeout_dur, workers,
                   retries, sem, port, handles, results, open, fb, net, output,
                   overflow_checks, total_ports>>

\* lines 131-136: the bounded read ends, the unit returns open
BannerRead(p) ==
    /\ units[p].st = "reading"
    /\ \E rd \in ReadOutcomes :
        units' = [units EXCEPT ![p].st = "done",
                               ![p].rec = Some(ResultRec(p, "open", BannerOf(rd)))]
    /\ sem' = sem + 1
    /\ UNCHANGED <<args, pc, exit_code, ip, durations, derived, timeout_dur, workers,
                   retries, port, handles, results, open, fb, net, output, overflow_checks, total_ports>>

\* ------------------------------------ the join loop and lines 149-157
NeedsFallback_always(found) == TRUE

\* line 160: open.is_empty()
NeedsFallback(found) == found = <<>>

\* h.await of the next handle: Ok(r) is pushed, Err is passed over, and the
\* task is gone; after the last handle the results are sorted by port and
\* filtered to the open ones
Join ==
    /\ pc = "join"
    /\ handles # <<>>
    /\ LET h == Head(handles)
           pushed == IF units[h].st = "done"
                     THEN Append(results, units[h].rec[1])
                     ELSE results
       IN  /\ units[h].st \in {"done", "failed"}
           /\ handles' = Tail(handles)
           /\ units' = [units EXCEPT ![h] = [NoUnit EXCEPT !.st = "joined"]]
           /\ IF handles' = <<>>
              THEN /\ results' = SortByKey(pushed)
                   /\ open' = FilterOpen(results')
                   /\ pc' = IF NeedsFallback(open') THEN "fallback" ELSE "report"
              ELSE /\ results' = pushed
                   /\ UNCHANGED <<open, pc>>
    /\ UNCHANGED <<args, exit_code, ip, durations, derived, timeout_dur, workers,
                   retries, sem, port, fb, net, output, overflow_checks, total_ports>>

\* ------------------------------------------ fallback probe, lines 160-173
common == <<22, 80>>

\* one iteration: connect to host:p within 1000 ms, read within 100 ms
Fallback ==
    /\ pc = "fallback"
    /\ fb < Len(common)
    /\ LET p == common[fb + 1]
       IN  /\ net' = net \cup {NetCall("fallback", "host", p)}
           /\ \/ UNCHANGED open
              \/ \E rd \in ReadOutcomes :
                    open' = Append(open, ResultRec(p, "open", BannerOf(rd)))
    /\ fb' = fb + 1
    /\ pc' = IF fb' = Len(common) THEN "report" ELSE "fallback"
    /\ UNCHANGED <<args, exit_code, ip, durations, derived, timeout_dur, workers,
                   retries, sem, port, units, handles, results, output, overflow_checks, total_ports>>

\* ------------------------------------------------ reporting, lines 175-208
\* args.end - args.start + 1 on u16 (lines 149 and 199): it overflows when
\* the difference is 65535
span_overflows(a) == a.end - a.start + 1 >= U16Modulus

\* its value in a build without overflow checks
wrapping_span(a) == (a.end - a.start + 1) % U16Modulus

\* the summary of lines 195-207 is printed after the list of open ports only
Report ==
    /\ pc = "report"
    /\ output' = IF args.json THEN "json"
                 ELSE IF open = <<>> THEN "No open ports found"
                 ELSE "Open ports"
    /\ total_ports' = IF ~args.json /\ open # <<>>
                      THEN wrapping_span(args)
                      ELSE total_ports
    /\ exit_code' = 0
    /\ pc' = "exited"
    /\ UNCHANGED <<args, ip, durations, derived, timeout_dur, workers, retries,
                   sem, port, units, handles, results, open, fb, net, overflow_checks>>

\* ---------------------------------------------------------- specification
Unit(p) ==
    \/ Acquire(p)
    \/ ConnectOk(p)
    \/ ConnectRefused(p)
    \/ ConnectTimeout(p)
    \/ BannerRead(p)

Next ==
    \/ Validate
    \/ Resolve
    \/ Probe
    \/ EstimateCompute
    \/ Configure
    \/ Spawn
    \/ \E p \in Ports : Unit(p)
    \/ Join
    \/ Fallback
    \/ Report

Spec == Init /\ [][Next]_vars

\* ------------------------------------- estimate_timeout examined on its own
\* the states in which main calls estimate_timeout (line 103): validated,
\* resolved, adaptive and not fast_public; every ceiling and every five
\* samples of the wider sets below
CeilingsIn == {50, 100, 160, 300, 5000}

InitEstimate ==
    /\ args \in [start : {21}, end : {21}, workers : {1}, timeout : CeilingsIn,
                 json : {FALSE}, retries : {0}, adaptive : {TRUE},
                 fast_public : {FALSE}]
    /\ pc = "derive"
    /\ exit_code = -1
    /\ ip \in {"v4", "v6"}
    /\ durations = <<>>
    /\ derived = 0
    /\ timeout_dur = 0
    /\ workers = 0
    /\ retries = 0
    /\ sem = -1
    /\ port = 0
    /\ units = [p \in Ports |-> NoUnit]
    /\ handles = <<>>
    /\ results = <<>>
    /\ open = <<>>
    /\ fb = 0
    /\ net = {NetCall("resolve", "host", 0)}
    /\ output = "none"
    /\ total_ports = -1
    /\ overflow_checks = FALSE

NextEstimate ==
    \/ ProbeIn(SampleSet)
    \/ EstimateCompute

SpecEstimate == InitEstimate /\ [][NextEstimate]_vars

\* ------------------------------- the port count of lines 149 and 199 alone
\* port values at the edges of u16
EdgePorts == {0, 1, 2, 21, 1024, 65534, 65535}

InitCount ==
    /\ args \in [start : EdgePorts, end : EdgePorts, workers : {1},
                 timeout : {300}, json : {FALSE}, retries : {0},
                 adaptive : {FALSE}, fast_public : {FALSE}]
    /\ pc = "validate"
    /\ exit_code = -1
    /\ ip = ""
    /\ durations = <<>>
    /\ derived = 0
    /\ timeout_dur = 0
    /\ workers = 0
    /\ retries = 0
    /\ sem = -1
    /\ port = 0
    /\ units = [p \in Ports |-> NoUnit]
    /\ handles = <<>>
    /\ results = <<>>
    /\ open = <<>>
    /\ fb = 0
    /\ net = {}
    /\ output = "none"
    /\ total_ports = -1
    /\ overflow_checks \in BOOLEAN

\* what lines 149 and 199 compute for a validated range, the resolution and
\* the sweep between the validation and them left out: the subtraction and
\* the addition on u16 panic on overflow in a build with overflow checks
\* and wrap otherwise
CountPorts ==
    /\ pc = "resolve"
    /\ IF span_overflows(args) /\ overflow_checks
       THEN /\ exit_code' = ExitPanic
            /\ UNCHANGED total_ports
       ELSE /\ exit_code' = 0
            /\ total_ports' = wrapping_span(args)
    /\ pc' = "exited"
    /\ UNCHANGED <<args, ip, durations, derived, timeout_dur, workers, retries,
                   sem, port, units, handles, results, open, fb, net, output,
                   overflow_checks>>

NextCount ==
    \/ Validate
    \/ CountPorts

SpecCount == InitCount /\ [][NextCount]_vars

\* ================================================================== claims
RangePorts == args.start..args.end

\* main has passed the join loop and the aggregation of lines 156-157
SweepDone ==
    \/ pc \in {"fallback", "report"}
    \/ pc = "exited" /\ exit_code = 0

\* main has passed lines 102-113
Configured == pc \in {"spawn", "join"} \/ SweepDone

ResultsFor(p) == {i \in DOMAIN results : results[i].port = p}

Running(u) == u.st \in {"waiting", "connecting", "reading"}

Calls(kind) == {c \in net : c.kind = kind}

\* C1: after the primary sweep the results hold exactly one record for every
\* port of [start, end] and none for any other port.
C1_OneOutcomePerPort ==
    SweepDone =>
        /\ Len(results) = args.end - args.start + 1
        /\ \A p \in Ports :
            Cardinality(ResultsFor(p)) = IF p \in RangePorts THEN 1 ELSE 0

\* C2: the number of units between the start of a connection attempt and
\* their outcome never exceeds the effective worker limit.
C2_InFlightBounded ==
    Cardinality({p \in Ports : InFlight(units[p])}) <= workers

C2_Witness ==
    /\ workers = 1
    /\ \E p, q \in Ports :
        /\ InFlight(units[p])
        /\ units[q].st = "waiting"

\* C3: a join that fails surfaces as an error of the run; main never goes on
\* past a handle whose port is missing from the results.
C3_JoinFailureSurfaces ==
    (\E p \in RangePorts : units[p].st = "joined" /\ ResultsFor(p) = {})
        => (pc = "exited" /\ exit_code \notin {-1, 0})

\* C4: a unit whose first connection attempt is refused makes exactly one
\* attempt and ends closed, whatever the value of retries.
C4_RefusedNoRetry ==
    \A p \in Ports :
        LET u == units[p] IN
        (u.hist # <<>> /\ u.hist[1].resp = "refused") =>
            /\ Len(u.hist) = 1
            /\ u.st = "done"
            /\ u.rec = Some(ResultRec(p, "closed", None))

C4_Witness ==
    /\ retries >= 1
    /\ \E p \in Ports :
        /\ units[p].st = "done"
        /\ Len(units[p].hist) = 1
        /\ units[p].hist[1].resp = "refused"

AllElapsed(h) == h # <<>> /\ \A i \in DOMAIN h : h[i].resp = "elapsed"

\* C5: a unit all of whose attempts time out makes exactly retries + 1
\* attempts, each with the effective timeout, and ends closed; no run that
\* reached a port attempt ends with an error exit code.
C5_TimeoutsExhaustRetries ==
    /\ \A p \in Ports :
        LET u == units[p] IN
        AllElapsed(u.hist) =>
            /\ \A i \in DOMAIN u.hist : u.hist[i].tmo = timeout_dur
            /\ u.st \in {"connecting", "done"}
            /\ u.st = "connecting" => Len(u.hist) < retries + 1
            /\ u.st = "done" =>
                /\ Len(u.hist) = retries + 1
                /\ u.rec = Some(ResultRec(p, "closed", None))
    /\ Calls("connect") # {} => exit_code \in {-1, 0}

C5_Witness ==
    /\ retries >= 1
    /\ \E p \in Ports :
        /\ units[p].st = "done"
        /\ AllElapsed(units[p].hist)
        /\ Len(units[p].hist) = retries + 1

\* C6: under fast_public the configuration in force from the creation of the
\* semaphore on is workers = max(workers, 2000), retries = 0 and timeout =
\* min(timeout, 80 ms); before it is in force there is no semaphore, no unit
\* and no port attempt, and every attempt uses that timeout.
C6_FastPublicOverrides ==
    /\ (args.fast_public /\ Configured) =>
        /\ workers = Max(args.workers, 2000)
        /\ workers >= 2000
        /\ retries = 0
        /\ timeout_dur = Min(args.timeout, 80)
        /\ timeout_dur <= 80
        /\ sem + Cardinality({p \in Ports : InFlight(units[p])}) = workers
        /\ \A p \in Ports : \A i \in DOMAIN units[p].hist :
                units[p].hist[i].tmo = timeout_dur
    /\ ~Configured =>
        /\ sem = -1
        /\ Calls("connect") = {}
        /\ \A p \in Ports : units[p].st = "unspawned"

C6_Witness ==
    /\ args.fast_public
    /\ args.workers < 2000
    /\ args.retries > 0
    /\ args.timeout > 80
    /\ \E p \in Ports : units[p].hist # <<>>

\* the third smallest of five samples, whatever their order
ThirdSmallest(d) ==
    CHOOSE m \in {d[i] : i \in DOMAIN d} :
        /\ Cardinality({i \in DOMAIN d : d[i] <= m}) >= 3
        /\ Cardinality({i \in DOMAIN d : d[i] >= m}) >= 3

\* C7: estimate_timeout returns min(ceiling, max(150 ms, 3 * m)), m the
\* median of the five probe durations; it never exceeds the ceiling; the
\* samples 10, 12, 14, 16, 1000 ms give 150 ms capped at the ceiling.
C7_EstimateFormula ==
    pc = "estimated" =>
        /\ Len(durations) = 5
        /\ derived = Min(args.timeout, Max(150, 3 * ThirdSmallest(durations)))
        /\ derived <= args.timeout
        /\ {durations[i] : i \in DOMAIN durations} = {10, 12, 14, 16, 1000}
              => derived = Min(args.timeout, 150)

C7_Witness ==
    /\ pc = "estimated"
    /\ durations = <<10, 12, 14, 16, 1000>>
    /\ args.timeout = 300
    /\ derived = 150

\* C8: the final result is strictly ascending by port, hence without
\* duplicate ports.
C8_FinalResultSorted ==
    \A i, j \in DOMAIN open : i < j => open[i].port < open[j].port

C8_Witness ==
    /\ pc = "exited"
    /\ fb = 0
    /\ Len(open) >= 2

PrimaryOpen == FilterOpen(results)

FallbackRuns ==
    /\ Calls("fallback") # {} =>
        /\ SweepDone
        /\ handles = <<>>
        /\ \A p \in Ports : ~Running(units[p])
        /\ PrimaryOpen = <<>>
    /\ (pc \in {"report", "exited"} /\ exit_code \in {-1, 0} /\ PrimaryOpen = <<>>) =>
        /\ fb = 2
        /\ {c.port : c \in Calls("fallback")} = {22, 80}

FallbackAllFailed == pc = "exited" /\ fb = 2 /\ open = <<>>

\* C9 as stated: the fallback probe runs exactly when the sweep has
\* completed with no open port, it probes 22 and 80, and when both fail the
\* result is empty and the "no open ports" message is printed.
C9_AsStated ==
    /\ FallbackRuns
    /\ FallbackAllFailed => output = "No open ports found"

\* C9, amended: as above, but the "no open ports" message is printed only
\* when JSON output was not asked for; with --json the (empty) JSON list is
\* printed instead.
C9_FallbackOnlyWhenEmpty ==
    /\ FallbackRuns
    /\ FallbackAllFailed =>
        output = IF args.json THEN "json" ELSE "No open ports found"

C9_Witness ==
    /\ FallbackAllFailed
    /\ ~args.json
    /\ output = "No open ports found"
    /\ {c.port : c \in Calls("fallback")} = {22, 80}

\* C10: with end < start the run ends with exit code 2, which is not the
\* resolution exit code, and makes no network call of any kind.
C10_InvalidRangeNoNetwork ==
    args.end < args.start =>
        /\ net = {}
        /\ pc \in {"validate", "exited"}
        /\ pc = "exited" => (exit_code = 2 /\ exit_code # ExitResolve)
        /\ Len(durations) = 0 /\ fb = 0
        /\ \A p \in Ports : units[p].st = "unspawned"

C10_Witness ==
    /\ args.end < args.start
    /\ pc = "exited"
    /\ exit_code = 2

\* C11: when the resolution fails or yields no address the run ends with
\* exit code 1 and nothing of the scan has happened: no probe, no semaphore,
\* no unit, no connection attempt, no fallback probe.
C11_ResolutionFailureStops ==
    /\ output \in {"resolve error", "failed to resolve host"} =>
        /\ pc = "exited"
        /\ exit_code = 1
        /\ ip = ""
        /\ net = {NetCall("resolve", "host", 0)}
        /\ durations = <<>>
        /\ sem = -1
        /\ handles = <<>>
        /\ fb = 0
        /\ \A p \in Ports : units[p].st = "unspawned"
    /\ exit_code = 1 => output \in {"resolve error", "failed to resolve host"}

C11_Witness ==
    /\ pc = "exited"
    /\ exit_code = 1
    /\ output = "failed to resolve host"

Finished(u) == u.st \in {"done", "failed", "joined"}

\* C12: a launched sweep runs to completion: until the run has ended, main
\* or some unit can always take its next step, so that no unit waits for a
\* permit for ever and the join loop, the aggregation and the report are
\* reached.
C12_RunsToCompletion ==
    Configured => (pc = "exited" \/ ENABLED Next)

WellFormed(r) ==
    /\ r.status \in {"open", "closed"}
    /\ r.status = "closed" => r.banner = None
    /\ r.banner # None =>
        /\ r.status = "open"
        /\ Len(r.banner) = 1
        /\ Len(r.banner[1]) >= 1

\* C13: a unit whose connect succeeded returns open, with or without a
\* banner; a banner is present only on an open record and holds at least one
\* character (the read returned at least one byte); a closed record has no
\* banner; a one-port range whose port is open gives exactly that record.
C13_BannerOnlyWhenOpen ==
    /\ \A p \in Ports :
        LET u == units[p] IN
        u.st = "done" =>
            /\ WellFormed(u.rec[1])
            /\ u.rec[1].port = p
            /\ (u.hist # <<>> /\ u.hist[Len(u.hist)].resp = "connected")
                  => u.rec[1].status = "open"
            /\ u.rec[1].status = "open"
                  => (u.hist # <<>> /\ u.hist[Len(u.hist)].resp = "connected")
    /\ \A i \in DOMAIN results : WellFormed(results[i])
    /\ \A i \in DOMAIN open : WellFormed(open[i])
    /\ (SweepDone /\ args.start = args.end /\ Len(results) = 1
            /\ results[1].status = "open")
          => open = <<results[1]>>

C13_Witness ==
    /\ pc = "exited"
    /\ args.start = 21
    /\ args.end = 21
    /\ open = <<ResultRec(21, "open", Some(<<72, 65533>>))>>

\* C14: the permits given out are exactly those of the units in flight: none
\* is leaked and none released twice, and once every unit has finished all
\* workers permits are available again.
C14_PermitsAccounted ==
    /\ sem = -1 => \A p \in Ports : ~InFlight(units[p])
    /\ sem # -1 =>
        /\ sem >= 0
        /\ sem <= workers
        /\ sem + Cardinality({p \in Ports : InFlight(units[p])}) = workers
    /\ (pc \in {"join", "fallback", "report", "exited"} /\ sem # -1
            /\ \A p \in RangePorts : Finished(units[p]))
          => sem = workers

C14_Witness ==
    /\ pc = "exited"
    /\ workers = 1
    /\ sem = workers
    /\ Len(results) = 2
    /\ \E i \in DOMAIN results : results[i].status = "open"
    /\ \E i \in DOMAIN results : results[i].status = "closed"

Last(h) == h[Len(h)]

\* C15: the attempts of a unit are sequential, all but the last time out,
\* their number is between 1 and retries + 1, and the unit ends open exactly
\* when its last attempt connected, closed when it was refused or when the
\* retries + 1 attempts all timed out.
C15_UnitProgression ==
    \A p \in Ports :
        LET u == units[p] IN
        /\ \A i \in DOMAIN u.hist : i < Len(u.hist) => u.hist[i].resp = "elapsed"
        /\ u.st = "connecting" =>
            /\ Len(u.hist) = u.try_idx
            /\ \A i \in DOMAIN u.hist : u.hist[i].resp = "elapsed"
            /\ Len(u.hist) <= retries
        /\ u.st = "reading" =>
            /\ u.hist # <<>>
            /\ Last(u.hist).resp = "connected"
        /\ u.st = "done" =>
            /\ Len(u.hist) >= 1
            /\ Len(u.hist) - 1 <= retries
            /\ u.rec[1].status = "open" => Last(u.hist).resp = "connected"
            /\ u.rec[1].status = "closed" =>
                \/ Last(u.hist).resp = "refused"
                \/ Last(u.hist).resp = "elapsed" /\ Len(u.hist) - 1 = retries

ProbedPorts == {c.port : c \in Calls("probe")}

\* C16: estimate_timeout is called exactly when adaptive is set and
\* fast_public is not; its probes go to 22, 80, 443, 53, 25 in this order
\* and are all done before the semaphore exists and before any unit is
\* spawned; without it the timeout comes from the base timeout alone.
C16_ProbesBeforeSweep ==
    /\ Calls("probe") # {} => (args.adaptive /\ ~args.fast_public)
    /\ pc = "derive" =>
        ProbedPorts = {<<22, 80, 443, 53, 25>>[i] : i \in 1..Len(durations)}
    /\ Configured =>
        /\ ProbedPorts = IF args.adaptive /\ ~args.fast_public
                         THEN {22, 80, 443, 53, 25}
                         ELSE {}
        /\ ~(args.adaptive /\ ~args.fast_public) =>
            timeout_dur = IF args.fast_public
                          THEN Min(args.timeout, 80)
                          ELSE args.timeout
    /\ ~Configured =>
        /\ sem = -1
        /\ handles = <<>>
        /\ \A p \in Ports : units[p].st = "unspawned"

C16_Witness ==
    /\ args.adaptive
    /\ ~args.fast_public
    /\ ProbedPorts = {22, 80, 443, 53, 25}
    /\ \E p \in Ports : InFlight(units[p])

\* C17: the host is resolved once, and every connection attempt of the run
\* (probe, sweep, fallback) goes to the address that resolution gave.
C17_SingleResolvedTarget ==
    /\ \A c \in net : c.kind = "resolve" => c = NetCall("resolve", "host", 0)
    /\ \A c \in net : c.kind # "resolve" => (ip # "" /\ c.target = ip)

\* C18: the semaphore is always created with at least one permit.
C18_WorkerLimitPositive ==
    sem # -1 => workers >= 1

\* C19: the port count the program computes for a valid range is
\* end - start + 1, and computing it never overflows.
C19_TotalPortsExact ==
    /\ exit_code # ExitPanic
    /\ total_ports # -1 => total_ports = args.end - args.start + 1

PrimaryOpenPorts ==
    {results[i].port : i \in {j \in DOMAIN results : results[j].status = "open"}}

FinalPorts == {open[i].port : i \in DOMAIN open}

\* C20: every entry of the final result is open and its port is in the
\* range or one of 22 and 80; a port outside the range is there only when the
\* sweep found no open port; when the sweep found one, the final result is
\* exactly the open records of the sweep.
C20_FinalResultMembers ==
    /\ \A i \in DOMAIN open :
        /\ open[i].status = "open"
        /\ open[i].port \in RangePorts \cup {22, 80}
    /\ (\E i \in DOMAIN open : open[i].port \notin RangePorts) =>
        (SweepDone /\ PrimaryOpenPorts = {})
    /\ (SweepDone /\ PrimaryOpenPorts # {}) =>
        /\ FinalPorts = PrimaryOpenPorts
        /\ Len(open) = Cardinality(PrimaryOpenPorts)
        /\ FinalPorts \subseteq RangePorts
        /\ fb = 0
        /\ \A i \in DOMAIN open : \E j \in DOMAIN results : open[i] = results[j]

C20_Witness ==
    /\ pc = "exited"
    /\ PrimaryOpenPorts = {}
    /\ \E i \in DOMAIN open : open[i].port \notin RangePorts

====
